---- MODULE Spec2Model ----
(***************************************************************************)
(* Renovation shopping planner: the item store and derived views of        *)
(* RenovationService, the four AI-assisted workflows, and the handlers of  *)
(* RenovationPlannerComponent that drive them.                             *)
(*                                                                         *)
(* Strings are drawn from a small universe; trim(), `||` and               *)
(* localeCompare() are modelled by what they do on that universe.          *)
(* Numbers are integers.  null is the empty tuple <<>>, a text t is <<t>>. *)
(***************************************************************************)
EXTENDS Integers, Sequences, FiniteSets, TLC

VARIABLES
    items,                          \* itemsSignal
    isGenerating,                   \* material list pending flag
    aiError,                        \* shared error slot
    detailedAnalysisResult,
    isGeneratingDetailedAnalysis,
    shoppingListSuggestions,
    isGeneratingShoppingList,
    operationalBriefResult,
    isGeneratingOperationalBrief,
    now,                            \* the reading of Date.now()
    inFlight,                       \* requests awaiting the model, per workflow
    lastOp                          \* history: the handler that ran last

vars == <<items, isGenerating, aiError, detailedAnalysisResult,
          isGeneratingDetailedAnalysis, shoppingListSuggestions,
          isGeneratingShoppingList, operationalBriefResult,
          isGeneratingOperationalBrief, now, inFlight, lastOp>>

workflowVars == <<isGenerating, aiError, detailedAnalysisResult,
                  isGeneratingDetailedAnalysis, shoppingListSuggestions,
                  isGeneratingShoppingList, operationalBriefResult,
                  isGeneratingOperationalBrief, inFlight>>

-----------------------------------------------------------------------------
(* Bounds *)

MaxItems == 2
MaxClock == 1
MaxQuantity == 2
MaxInFlight == 2

-----------------------------------------------------------------------------
(* Strings and numbers *)

Null == <<>>

\* A parsed JSON document: an array with its elements, or a value of another type.
JsonArray(elems) == [type |-> "array", elems |-> elems]
JsonOther(type) == [type |-> type, elems |-> <<>>]

DefaultCategory == "Nekategorizirano"
DefaultUnit == "kom"

\* String.prototype.trim on the strings of the model.
Trim(s) ==
    CASE s = " " -> ""
      [] s = " A" -> "A"
      [] s = "A " -> "A"
      [] OTHER -> s

\* a || b for strings: the empty string is falsy.
OrElse(a, b) == IF a # "" THEN a ELSE b

\* Property names every plain object inherits from Object.prototype;
\* categories[name] is truthy for them although nothing was stored.
ObjectPrototypeKeys == {"constructor"}

\* The collation order localeCompare() gives the strings of the model.
LocaleOrder == <<"a", "A", "B", "constructor", "Nekategorizirano">>

LocaleRank(s) == CHOOSE i \in 1..Len(LocaleOrder) : LocaleOrder[i] = s

localeCompare(a, b) ==
    IF LocaleRank(a) < LocaleRank(b) THEN -1
    ELSE IF LocaleRank(a) > LocaleRank(b) THEN 1 ELSE 0

-----------------------------------------------------------------------------
(* Item store: RenovationService *)

\* Date.now().toString() followed by a suffix; the suffix is "" for addItem.
MakeId(t, suffix) == <<t, suffix>>

\* The suffixes Math.random().toString(36).substring(2, 9) can give.
RandomSuffixes == {"r", "s"}

NewItem(item, t) ==
    [id           |-> MakeId(t, ""),
     name         |-> item.name,
     category     |-> OrElse(item.category, DefaultCategory),
     quantity     |-> item.quantity,
     unit         |-> OrElse(item.unit, DefaultUnit),
     pricePerUnit |-> item.pricePerUnit,
     totalCost    |-> item.quantity * item.pricePerUnit,
     purchased    |-> item.purchased]

addItem(its, item, t) == Append(its, NewItem(item, t))

\* { ...item, ...updates }
Spread(item, updates) ==
    [f \in DOMAIN item |-> IF f \in DOMAIN updates THEN updates[f] ELSE item[f]]

UpdatedItem(item, updates) ==
    LET merged == Spread(item, updates)
        costed == IF "quantity" \in DOMAIN updates \/ "pricePerUnit" \in DOMAIN updates
                  THEN [merged EXCEPT !.totalCost = merged.quantity * merged.pricePerUnit]
                  ELSE merged
        categorised == IF "category" \in DOMAIN updates
                       THEN [costed EXCEPT !.category = OrElse(updates.category, DefaultCategory)]
                       ELSE costed
    IN  IF "unit" \in DOMAIN updates
        THEN [categorised EXCEPT !.unit = OrElse(updates.unit, DefaultUnit)]
        ELSE categorised

\* updateItem without its test of the id: every row takes the update.
updateItemEveryRow(its, id, updates) ==
    [i \in 1..Len(its) |-> UpdatedItem(its[i], updates)]

updateItem(its, id, updates) ==
    [i \in 1..Len(its) |->
        IF its[i].id = id THEN UpdatedItem(its[i], updates) ELSE its[i]]

KeepsItem(item, id) == item.id # id

removeItem(its, id) == SelectSeq(its, LAMBDA item : KeepsItem(item, id))

clearAllItems == <<>>

HasId(its, id) == \E i \in 1..Len(its) : its[i].id = id

-----------------------------------------------------------------------------
(* Derived views: RenovationService.categorizedItems *)

\* item.category?.trim() || 'Nekategorizirano'
CategoryOf(item) == OrElse(Trim(item.category), DefaultCategory)

Range(s) == {s[i] : i \in 1..Len(s)}

\* The keys of the categories object, in the order forEach created them.
CategoryKeys(its) ==
    LET keys[n \in 0..Len(its)] ==
            IF n = 0 THEN <<>>
            ELSE IF CategoryOf(its[n]) \in Range(keys[n - 1])
                 THEN keys[n - 1]
                 ELSE Append(keys[n - 1], CategoryOf(its[n]))
    IN  keys[Len(its)]

\* What the comparator compares: a.name.localeCompare(b.name) for the items of
\* a category, a.localeCompare(b) for the category names.
SortKey(x, by) ==
    IF by = "name" THEN x.name ELSE IF by = "category" THEN x.category ELSE x

\* Where a stable sort puts x: behind every element that does not compare
\* greater than it.
InsertionPoint(sorted, x, by) ==
    LET after == {i \in 1..Len(sorted) :
                     localeCompare(SortKey(sorted[i], by), SortKey(x, by)) <= 0}
    IN  IF after = {} THEN 0
        ELSE CHOOSE i \in after : \A j \in after : j <= i

InsertAt(s, k, x) ==
    [i \in 1..(Len(s) + 1) |-> IF i <= k THEN s[i] ELSE IF i = k + 1 THEN x ELSE s[i - 1]]

\* Array.prototype.sort with a localeCompare comparator (a stable sort).
SortedBy(s, by) ==
    LET sorted[n \in 0..Len(s)] ==
            IF n = 0 THEN <<>>
            ELSE InsertAt(sorted[n - 1], InsertionPoint(sorted[n - 1], s[n], by), s[n])
    IN  sorted[Len(s)]

\* categories is a plain object: for a key Object.prototype defines,
\* categories[key] is the inherited member, so no array is stored and push()
\* throws a TypeError.
GroupingThrows(its) ==
    \E i \in 1..Len(its) : CategoryOf(its[i]) \in ObjectPrototypeKeys

categorizedItems(its) ==
    IF GroupingThrows(its)
    THEN [threw |-> TRUE, groups |-> <<>>]
    ELSE LET sortedCategories == SortedBy(CategoryKeys(its), "self")
         IN  [threw |-> FALSE,
              groups |->
                 [k \in 1..Len(sortedCategories) |->
                     [categoryName |-> sortedCategories[k],
                      items |-> SortedBy(
                          SelectSeq(its, LAMBDA item :
                              CategoryOf(item) = sortedCategories[k]),
                          "name")]]]

\* reduce((sum, x) => sum + x, 0)
Sum(numbers) ==
    LET sum[n \in 0..Len(numbers)] ==
            IF n = 0 THEN 0 ELSE sum[n - 1] + numbers[n]
    IN  sum[Len(numbers)]

totalBudget(its) == Sum([i \in 1..Len(its) |-> its[i].totalCost])

\* costsMap is a Map: its keys are looked up by value, nothing is inherited.
\* Its entries come out in the order the keys were first set.
categoryCosts(its) ==
    LET keys == CategoryKeys(its)
        entries == [k \in 1..Len(keys) |->
                       [category |-> keys[k],
                        total |-> totalBudget(
                            SelectSeq(its, LAMBDA item : CategoryOf(item) = keys[k]))]]
    IN  SortedBy(entries, "category")

-----------------------------------------------------------------------------
(* Initial state *)

\* lastOp: the handler that ran last, whether it took effect (hit), and whether
\* it executed set(true) on a pending flag at any point (pendingSet).
Op(name, hit, pendingSet) == [op |-> name, hit |-> hit, pendingSet |-> pendingSet]

NoOp == Op("init", FALSE, FALSE)

\* The same for a handler that overwrites a result slot on entry: slotBefore
\* is what the slot held when the handler was called.
OpOnSlot(name, hit, pendingSet, slot) ==
    [op |-> name, hit |-> hit, pendingSet |-> pendingSet, slotBefore |-> slot]

Workflows == {"materials", "analysis", "suggestions", "brief"}

Init ==
    /\ items = <<>>
    /\ isGenerating = FALSE
    /\ aiError = Null
    /\ detailedAnalysisResult = Null
    /\ isGeneratingDetailedAnalysis = FALSE
    /\ shoppingListSuggestions = JsonArray(<<>>)
    /\ isGeneratingShoppingList = FALSE
    /\ operationalBriefResult = Null
    /\ isGeneratingOperationalBrief = FALSE
    /\ now = 0
    /\ inFlight = [w \in Workflows |-> 0]
    /\ lastOp = NoOp

TotalInFlight ==
    inFlight["materials"] + inFlight["analysis"] + inFlight["suggestions"]
        + inFlight["brief"]

\* Time passes between two handlers.
Tick ==
    /\ now < MaxClock
    /\ now' = now + 1
    /\ UNCHANGED <<items, workflowVars, lastOp>>

-----------------------------------------------------------------------------
(* The service's item operations called with any argument they accept *)

\* Omit<ShoppingItem, 'id' | 'totalCost'>
ServiceDrafts ==
    [name : {"a"}, category : {""}, quantity : {1}, unit : {""},
     pricePerUnit : {2}, purchased : {FALSE}]

ItemIds == {MakeId(t, "") : t \in 0..MaxClock}

\* Partial<ShoppingItem>: any subset of the fields; these are the shapes used.
ServiceUpdates ==
    {[quantity |-> 2], [totalCost |-> 5]}
    \cup {[id |-> i] : i \in ItemIds}

ServiceAddItem(item) ==
    /\ Len(items) < MaxItems
    /\ items' = addItem(items, item, now)
    /\ lastOp' = Op("addItem", FALSE, FALSE)
    /\ UNCHANGED <<workflowVars, now>>

ServiceUpdateItem(id, updates) ==
    /\ items' = updateItem(items, id, updates)
    /\ lastOp' = Op("updateItem", HasId(items, id), FALSE)
    /\ UNCHANGED <<workflowVars, now>>

ServiceRemoveItem(id) ==
    /\ items' = removeItem(items, id)
    /\ lastOp' = Op("removeItem", HasId(items, id), FALSE)
    /\ UNCHANGED <<workflowVars, now>>

ServiceClearAllItems ==
    /\ items' = clearAllItems
    /\ lastOp' = Op("clearAllItems", FALSE, FALSE)
    /\ UNCHANGED <<workflowVars, now>>

NextService ==
    \/ Tick
    \/ \E item \in ServiceDrafts : ServiceAddItem(item)
    \/ \E id \in ItemIds, updates \in ServiceUpdates : ServiceUpdateItem(id, updates)
    \/ \E id \in ItemIds : ServiceRemoveItem(id)
    \/ ServiceClearAllItems

SpecService == Init /\ [][NextService]_vars

-----------------------------------------------------------------------------
(* Material list generation: RenovationService.generateRenovationMaterials *)

\* What the awaited generateContent() call can give: a rejected promise
\* (transport, quota) or a response whose text is one of these documents.
GeneratedEntries ==
    {[name |-> "a", category |-> "", quantity |-> 1, unit |-> "",
      estimatedPricePerUnit |-> 2],
     [name |-> "a", category |-> " ", quantity |-> 0, unit |-> "",
      estimatedPricePerUnit |-> -1]}

EntryLists ==
    UNION {[1..n -> GeneratedEntries] : n \in 0..MaxItems}

MaterialResponses ==
    {[rejected |-> TRUE, message |-> m, syntax |-> "none", elems |-> <<>>] :
        m \in {"", "network"}}
    \cup {[rejected |-> FALSE, message |-> "", syntax |-> x, elems |-> <<>>] :
        x \in {"malformed", "object", "null"}}
    \cup {[rejected |-> FALSE, message |-> "", syntax |-> "array", elems |-> es] :
        es \in EntryLists}

\* JSON.parse(response.text.trim()): throws on a malformed document.
JsonParse(response) ==
    IF response.syntax = "malformed"
    THEN [threw |-> TRUE, message |-> "SyntaxError", type |-> "none", elems |-> <<>>]
    ELSE [threw |-> FALSE, message |-> "", type |-> response.syntax,
          elems |-> response.elems]

\* A try block that takes whatever is not an array of entries for an empty
\* list instead of throwing.
GeneratedOrNothing(response) ==
    IF ~response.rejected /\ response.syntax = "array"
    THEN [threw |-> FALSE, message |-> "", elems |-> response.elems]
    ELSE [threw |-> FALSE, message |-> "", elems |-> <<>>]

\* The try block up to itemsToAdd: await, parse, generated.map(...).
\* Only an array has map(); on anything else the call throws a TypeError.
GeneratedOrThrow(response) ==
    IF response.rejected
    THEN [threw |-> TRUE, message |-> response.message, elems |-> <<>>]
    ELSE LET parsed == JsonParse(response)
         IN  IF parsed.threw
             THEN [threw |-> TRUE, message |-> parsed.message, elems |-> <<>>]
             ELSE IF parsed.type # "array"
             THEN [threw |-> TRUE, message |-> "TypeError", elems |-> <<>>]
             ELSE [threw |-> FALSE, message |-> "", elems |-> parsed.elems]

ItemFromGenerated(genItem, t, suffix) ==
    [id           |-> MakeId(t, suffix),
     name         |-> genItem.name,
     category     |-> OrElse(genItem.category, DefaultCategory),
     quantity     |-> genItem.quantity,
     unit         |-> OrElse(genItem.unit, DefaultUnit),
     pricePerUnit |-> genItem.estimatedPricePerUnit,
     totalCost    |-> genItem.quantity * genItem.estimatedPricePerUnit,
     purchased    |-> FALSE]

ItemsToAdd(generated, t, suffixes) ==
    [i \in 1..Len(generated) |-> ItemFromGenerated(generated[i], t, suffixes[i])]

\* error.message || 'Nepoznata greska.'
ErrorDetail(message) == OrElse(message, "Nepoznata greska.")

MaterialsError(message) == <<"Greska pri generiranju popisa.", ErrorDetail(message)>>

\* Lines 72-73 and the request of line 98: the part that runs before the await.
GenerateRenovationMaterialsStart ==
    /\ isGenerating' = TRUE
    /\ aiError' = Null
    /\ inFlight' = [inFlight EXCEPT !["materials"] = @ + 1]

\* The await of line 98 resumes: lines 120-140.
MaterialsResponse(response, suffixes) ==
    /\ inFlight["materials"] > 0
    /\ LET got == GeneratedOrThrow(response)
       IN  /\ Len(suffixes) = Len(got.elems)
           /\ Len(items) + Len(got.elems) <= MaxItems
           /\ items' = IF got.threw THEN items
                       ELSE items \o ItemsToAdd(got.elems, now, suffixes)
           /\ aiError' = IF got.threw THEN MaterialsError(got.message) ELSE aiError
           /\ lastOp' = Op("materialsResponse", ~got.threw, FALSE)
    /\ isGenerating' = FALSE
    /\ inFlight' = [inFlight EXCEPT !["materials"] = @ - 1]
    /\ UNCHANGED <<detailedAnalysisResult, isGeneratingDetailedAnalysis,
                   shoppingListSuggestions, isGeneratingShoppingList,
                   operationalBriefResult, isGeneratingOperationalBrief, now>>

-----------------------------------------------------------------------------
(* The planner's handlers: RenovationPlannerComponent *)

\* Number(input.value): a number, or NaN for text that is none.
NumberInputs(values) ==
    {[nan |-> TRUE, value |-> 0]} \cup {[nan |-> FALSE, value |-> v] : v \in values}

FormInputs ==
    [name : {"", "a"}, category : {""}, quantity : {0, 1}, unit : {""},
     pricePerUnit : {-1, 2}]

\* The guard of line 221.
FormIsInvalid(name, quantity, pricePerUnit) ==
    name = "" \/ quantity <= 0 \/ pricePerUnit < 0

PlannerAddItem(form) ==
    LET name == Trim(form.name)
        category == Trim(form.category)
        unit == Trim(form.unit)
    IN  /\ Len(items) < MaxItems
        /\ IF FormIsInvalid(name, form.quantity, form.pricePerUnit)
           THEN /\ items' = items
                /\ lastOp' = Op("addItem", FALSE, FALSE)
           ELSE /\ items' = addItem(items,
                                    [name |-> name,
                                     category |-> OrElse(category, DefaultCategory),
                                     quantity |-> form.quantity,
                                     unit |-> OrElse(unit, DefaultUnit),
                                     pricePerUnit |-> form.pricePerUnit,
                                     purchased |-> FALSE],
                                    now)
                /\ lastOp' = Op("addItem", TRUE, FALSE)
        /\ UNCHANGED <<workflowVars, now>>

\* A handler bound to a rendered row gets that row's item.
Rows == 1..Len(items)

PlannerRemoveItem(i) ==
    /\ items' = removeItem(items, items[i].id)
    /\ lastOp' = Op("removeItem", TRUE, FALSE)
    /\ UNCHANGED <<workflowVars, now>>

QuantityIsValid(n) == ~n.nan /\ n.value > 0

PlannerUpdateQuantity(i, n) ==
    /\ items' = IF QuantityIsValid(n)
                THEN updateItem(items, items[i].id, [quantity |-> n.value])
                ELSE items
    /\ lastOp' = Op("updateQuantity", QuantityIsValid(n), FALSE)
    /\ UNCHANGED <<workflowVars, now>>

PlannerIncreaseQuantity(i) ==
    /\ items[i].quantity < MaxQuantity
    /\ items' = updateItem(items, items[i].id, [quantity |-> items[i].quantity + 1])
    /\ lastOp' = Op("increaseQuantity", TRUE, FALSE)
    /\ UNCHANGED <<workflowVars, now>>

PlannerDecreaseQuantity(i) ==
    /\ items' = IF items[i].quantity > 1
                THEN updateItem(items, items[i].id, [quantity |-> items[i].quantity - 1])
                ELSE items
    /\ lastOp' = Op("decreaseQuantity", items[i].quantity > 1, FALSE)
    /\ UNCHANGED <<workflowVars, now>>

PriceIsValid(n) == ~n.nan /\ n.value >= 0

PlannerUpdatePricePerUnit(i, n) ==
    /\ items' = IF PriceIsValid(n)
                THEN updateItem(items, items[i].id, [pricePerUnit |-> n.value])
                ELSE items
    /\ lastOp' = Op("updatePricePerUnit", PriceIsValid(n), FALSE)
    /\ UNCHANGED <<workflowVars, now>>

PlannerUpdateName(i, text) ==
    /\ items' = IF Trim(text) # ""
                THEN updateItem(items, items[i].id, [name |-> Trim(text)])
                ELSE items
    /\ lastOp' = Op("updateName", Trim(text) # "", FALSE)
    /\ UNCHANGED <<workflowVars, now>>

PlannerUpdateCategory(i, text) ==
    /\ items' = updateItem(items, items[i].id,
                           [category |-> OrElse(Trim(text), DefaultCategory)])
    /\ lastOp' = Op("updateCategory", TRUE, FALSE)
    /\ UNCHANGED <<workflowVars, now>>

\* confirm() answers yes or no.
PlannerClearAll(confirmed) ==
    /\ items' = IF confirmed THEN clearAllItems ELSE items
    /\ lastOp' = Op("clearAll", confirmed, FALSE)
    /\ UNCHANGED <<workflowVars, now>>

Prompts == {"", " ", "A"}

BlankPromptError == <<"Molimo unesite opis stana za generiranje popisa.">>

\* The blank test without the trim.
PromptIsEmpty(text) == text = ""

\* !prompt, of the trimmed prompt (lines 152-153).
PromptIsBlank(text) == Trim(text) = ""

PlannerOnGenerateList(text) ==
    /\ IF PromptIsBlank(text)
       THEN /\ aiError' = BlankPromptError
            /\ UNCHANGED <<isGenerating, inFlight>>
            /\ lastOp' = Op("onGenerateList", FALSE, FALSE)
       ELSE /\ TotalInFlight < MaxInFlight
            /\ GenerateRenovationMaterialsStart
            /\ lastOp' = Op("onGenerateList", TRUE, TRUE)
    /\ UNCHANGED <<items, detailedAnalysisResult, isGeneratingDetailedAnalysis,
                   shoppingListSuggestions, isGeneratingShoppingList,
                   operationalBriefResult, isGeneratingOperationalBrief, now>>

-----------------------------------------------------------------------------
(* Detailed analysis: RenovationService.generateDetailedAnalysis *)

\* A free-text call gives a rejected promise or a text.
TextResponses ==
    {[rejected |-> TRUE, message |-> "network", text |-> ""],
     [rejected |-> FALSE, message |-> "", text |-> " T "]}

TrimText(text) == IF text = " T " THEN "T" ELSE Trim(text)

AnalysisError(message) ==
    <<"Greska pri generiranju detaljne analize.", ErrorDetail(message)>>

\* The start without line 146: the previous analysis is kept.
GenerateDetailedAnalysisStartKeepingResult ==
    /\ isGeneratingDetailedAnalysis' = TRUE
    /\ aiError' = Null
    /\ detailedAnalysisResult' = detailedAnalysisResult
    /\ inFlight' = [inFlight EXCEPT !["analysis"] = @ + 1]

\* Lines 144-146 and the request of line 199.
GenerateDetailedAnalysisStart ==
    /\ isGeneratingDetailedAnalysis' = TRUE
    /\ aiError' = Null
    /\ detailedAnalysisResult' = Null
    /\ inFlight' = [inFlight EXCEPT !["analysis"] = @ + 1]

\* AnalysisResponse with a success path that also resets the error slot.
AnalysisResponseClearingError(response) ==
    /\ inFlight["analysis"] > 0
    /\ IF response.rejected
       THEN /\ aiError' = AnalysisError(response.message)
            /\ UNCHANGED detailedAnalysisResult
       ELSE /\ detailedAnalysisResult' = <<TrimText(response.text)>>
            /\ aiError' = Null
    /\ isGeneratingDetailedAnalysis' = FALSE
    /\ inFlight' = [inFlight EXCEPT !["analysis"] = @ - 1]
    /\ lastOp' = Op("analysisResponse", ~response.rejected, FALSE)
    /\ UNCHANGED <<items, isGenerating, shoppingListSuggestions,
                   isGeneratingShoppingList, operationalBriefResult,
                   isGeneratingOperationalBrief, now>>

\* The await of line 199 resumes: lines 206-212.
AnalysisResponse(response) ==
    /\ inFlight["analysis"] > 0
    /\ IF response.rejected
       THEN /\ aiError' = AnalysisError(response.message)
            /\ UNCHANGED detailedAnalysisResult
       ELSE /\ detailedAnalysisResult' = <<TrimText(response.text)>>
            /\ UNCHANGED aiError
    /\ isGeneratingDetailedAnalysis' = FALSE
    /\ inFlight' = [inFlight EXCEPT !["analysis"] = @ - 1]
    /\ lastOp' = Op("analysisResponse", ~response.rejected, FALSE)
    /\ UNCHANGED <<items, isGenerating, shoppingListSuggestions,
                   isGeneratingShoppingList, operationalBriefResult,
                   isGeneratingOperationalBrief, now>>

BlankAnalysisPromptError ==
    <<"Molimo unesite opis projekta za generiranje detaljne analize.">>

\* The handler with a start that also drops the operational brief.
PlannerOnGenerateDetailedAnalysisClearingBrief(text) ==
    /\ IF PromptIsBlank(text)
       THEN /\ aiError' = BlankAnalysisPromptError
            /\ UNCHANGED <<isGeneratingDetailedAnalysis, detailedAnalysisResult,
                           inFlight, operationalBriefResult>>
            /\ lastOp' = Op("onGenerateDetailedAnalysis", FALSE, FALSE)
       ELSE /\ TotalInFlight < MaxInFlight
            /\ GenerateDetailedAnalysisStart
            /\ operationalBriefResult' = Null
            /\ lastOp' = Op("onGenerateDetailedAnalysis", TRUE, TRUE)
    /\ UNCHANGED <<items, isGenerating, shoppingListSuggestions,
                   isGeneratingShoppingList, isGeneratingOperationalBrief, now>>

PlannerOnGenerateDetailedAnalysis(text) ==
    /\ IF PromptIsBlank(text)
       THEN /\ aiError' = BlankAnalysisPromptError
            /\ UNCHANGED <<isGeneratingDetailedAnalysis, detailedAnalysisResult,
                           inFlight>>
            /\ lastOp' = Op("onGenerateDetailedAnalysis", FALSE, FALSE)
       ELSE /\ TotalInFlight < MaxInFlight
            /\ GenerateDetailedAnalysisStart
            /\ lastOp' = Op("onGenerateDetailedAnalysis", TRUE, TRUE)
    /\ UNCHANGED <<items, isGenerating, shoppingListSuggestions,
                   isGeneratingShoppingList, operationalBriefResult,
                   isGeneratingOperationalBrief, now>>

-----------------------------------------------------------------------------
(* Shopping suggestions: RenovationService.generateShoppingListSuggestions *)

Suggestion == [productName |-> "p", storeName |-> "s"]

SuggestionResponses ==
    {[rejected |-> TRUE, message |-> "network", syntax |-> "none", elems |-> <<>>]}
    \cup {[rejected |-> FALSE, message |-> "", syntax |-> x, elems |-> <<>>] :
        x \in {"malformed", "object"}}
    \cup {[rejected |-> FALSE, message |-> "", syntax |-> "array", elems |-> es] :
        es \in {<<>>, <<Suggestion>>}}

SuggestionsError(message) ==
    <<"Greska pri generiranju shopping liste.", ErrorDetail(message)>>

ServiceEmptyListError ==
    <<"Popis za kupnju je prazan. Dodajte stavke prije generiranja preporuka.">>

\* Lines 216-224 and the request of line 245: flag, error and slot are written
\* before the list is looked at; an empty list ends the call there.
GenerateShoppingListSuggestionsStart(shoppingItems) ==
    /\ shoppingListSuggestions' = JsonArray(<<>>)
    /\ IF Len(shoppingItems) = 0
       THEN /\ aiError' = ServiceEmptyListError
            /\ isGeneratingShoppingList' = FALSE
            /\ UNCHANGED inFlight
       ELSE /\ aiError' = Null
            /\ isGeneratingShoppingList' = TRUE
            /\ inFlight' = [inFlight EXCEPT !["suggestions"] = @ + 1]

\* SuggestionsResponse with a catch block that also empties the slot.
SuggestionsResponseClearing(response) ==
    /\ inFlight["suggestions"] > 0
    /\ LET parsed == JsonParse(response)
           threw == response.rejected \/ parsed.threw
           message == IF response.rejected THEN response.message ELSE parsed.message
       IN  /\ IF threw
              THEN /\ aiError' = SuggestionsError(message)
                   /\ shoppingListSuggestions' = JsonArray(<<>>)
              ELSE /\ shoppingListSuggestions' =
                          [type |-> parsed.type, elems |-> parsed.elems]
                   /\ UNCHANGED aiError
           /\ lastOp' = Op("suggestionsResponse", ~threw, FALSE)
    /\ isGeneratingShoppingList' = FALSE
    /\ inFlight' = [inFlight EXCEPT !["suggestions"] = @ - 1]
    /\ UNCHANGED <<items, isGenerating, detailedAnalysisResult,
                   isGeneratingDetailedAnalysis, operationalBriefResult,
                   isGeneratingOperationalBrief, now>>

\* The await of line 245 resumes: lines 268-277.  Whatever JSON.parse returns,
\* an array or not, goes into the slot.
SuggestionsResponse(response) ==
    /\ inFlight["suggestions"] > 0
    /\ LET parsed == JsonParse(response)
           threw == response.rejected \/ parsed.threw
           message == IF response.rejected THEN response.message ELSE parsed.message
       IN  /\ IF threw
              THEN /\ aiError' = SuggestionsError(message)
                   /\ UNCHANGED shoppingListSuggestions
              ELSE /\ shoppingListSuggestions' =
                          [type |-> parsed.type, elems |-> parsed.elems]
                   /\ UNCHANGED aiError
           /\ lastOp' = Op("suggestionsResponse", ~threw, FALSE)
    /\ isGeneratingShoppingList' = FALSE
    /\ inFlight' = [inFlight EXCEPT !["suggestions"] = @ - 1]
    /\ UNCHANGED <<items, isGenerating, detailedAnalysisResult,
                   isGeneratingDetailedAnalysis, operationalBriefResult,
                   isGeneratingOperationalBrief, now>>

PlannerEmptyListError ==
    <<"Vas popis za kupnju je prazan. Dodajte stavke prije generiranja preporuka za shopping listu.">>

\* The planner's test of the list with the comparison turned round.
ListIsShorterThanEmpty(its) == Len(its) < 0

\* items.length === 0 (line 173)
ListIsEmpty(its) == Len(its) = 0

PlannerOnGenerateShoppingList ==
    /\ IF ListIsEmpty(items)
       THEN /\ aiError' = PlannerEmptyListError
            /\ UNCHANGED <<isGeneratingShoppingList, shoppingListSuggestions,
                           inFlight>>
            /\ lastOp' = Op("onGenerateShoppingList", FALSE, FALSE)
       ELSE /\ TotalInFlight < MaxInFlight
            /\ GenerateShoppingListSuggestionsStart(items)
            /\ lastOp' = OpOnSlot("onGenerateShoppingList", Len(items) > 0, TRUE,
                                  shoppingListSuggestions)
    /\ UNCHANGED <<items, isGenerating, detailedAnalysisResult,
                   isGeneratingDetailedAnalysis, operationalBriefResult,
                   isGeneratingOperationalBrief, now>>

-----------------------------------------------------------------------------
(* Operational brief: RenovationService.generateOperationalBrief *)

\* !detailedAnalysis: null and the empty text are falsy.
IsFalsyText(slot) == slot = Null \/ slot = <<"">>

\* productSuggestions.length === 0: only an array has a length.
HasNoSuggestions(slot) == slot.type = "array" /\ Len(slot.elems) = 0

NothingToSummarise(analysis, shoppingItems, productSuggestions) ==
    /\ IsFalsyText(analysis)
    /\ Len(shoppingItems) = 0
    /\ HasNoSuggestions(productSuggestions)

BriefError(message) ==
    <<"Greska pri generiranju operativnog sazetka.", ErrorDetail(message)>>

ServiceNoDataError ==
    <<"Nema dovoljno podataka za generiranje sazetka. Generirajte barem jednu analizu ili popis.">>

\* Lines 281-289 and the request of line 315.
GenerateOperationalBriefStart(analysis, shoppingItems, productSuggestions) ==
    /\ operationalBriefResult' = Null
    /\ IF NothingToSummarise(analysis, shoppingItems, productSuggestions)
       THEN /\ aiError' = ServiceNoDataError
            /\ isGeneratingOperationalBrief' = FALSE
            /\ UNCHANGED inFlight
       ELSE /\ aiError' = Null
            /\ isGeneratingOperationalBrief' = TRUE
            /\ inFlight' = [inFlight EXCEPT !["brief"] = @ + 1]

\* BriefResponse with the flag cleared at the end of the try block instead of
\* in a finally block.
BriefResponseWithoutFinally(response) ==
    /\ inFlight["brief"] > 0
    /\ IF response.rejected
       THEN /\ aiError' = BriefError(response.message)
            /\ UNCHANGED <<operationalBriefResult, isGeneratingOperationalBrief>>
       ELSE /\ operationalBriefResult' = <<TrimText(response.text)>>
            /\ isGeneratingOperationalBrief' = FALSE
            /\ UNCHANGED aiError
    /\ inFlight' = [inFlight EXCEPT !["brief"] = @ - 1]
    /\ lastOp' = Op("briefResponse", ~response.rejected, FALSE)
    /\ UNCHANGED <<items, isGenerating, detailedAnalysisResult,
                   isGeneratingDetailedAnalysis, shoppingListSuggestions,
                   isGeneratingShoppingList, now>>

\* The await of line 315 resumes: lines 319-325.
BriefResponse(response) ==
    /\ inFlight["brief"] > 0
    /\ IF response.rejected
       THEN /\ aiError' = BriefError(response.message)
            /\ UNCHANGED operationalBriefResult
       ELSE /\ operationalBriefResult' = <<TrimText(response.text)>>
            /\ UNCHANGED aiError
    /\ isGeneratingOperationalBrief' = FALSE
    /\ inFlight' = [inFlight EXCEPT !["brief"] = @ - 1]
    /\ lastOp' = Op("briefResponse", ~response.rejected, FALSE)
    /\ UNCHANGED <<items, isGenerating, detailedAnalysisResult,
                   isGeneratingDetailedAnalysis, shoppingListSuggestions,
                   isGeneratingShoppingList, now>>

PlannerNoDataError ==
    <<"Generirajte barem jednu od prethodnih analiza prije stvaranja operativnog sazetka.">>

PlannerOnGenerateOperationalBrief ==
    LET nothing == NothingToSummarise(detailedAnalysisResult, items,
                                      shoppingListSuggestions)
    IN  /\ IF nothing
           THEN /\ aiError' = PlannerNoDataError
                /\ UNCHANGED <<isGeneratingOperationalBrief, operationalBriefResult,
                               inFlight>>
                /\ lastOp' = Op("onGenerateOperationalBrief", FALSE, FALSE)
           ELSE /\ TotalInFlight < MaxInFlight
                /\ GenerateOperationalBriefStart(detailedAnalysisResult, items,
                                                 shoppingListSuggestions)
                /\ lastOp' = Op("onGenerateOperationalBrief", TRUE, TRUE)
        /\ UNCHANGED <<items, isGenerating, detailedAnalysisResult,
                       isGeneratingDetailedAnalysis, shoppingListSuggestions,
                       isGeneratingShoppingList, now>>

-----------------------------------------------------------------------------
(* Specifications *)

SuffixLists == UNION {[1..n -> RandomSuffixes] : n \in 0..MaxItems}

Next ==
    \/ Tick
    \/ \E form \in FormInputs : PlannerAddItem(form)
    \/ \E i \in Rows : PlannerRemoveItem(i)
    \/ \E i \in Rows, n \in NumberInputs({0, 2}) : PlannerUpdateQuantity(i, n)
    \/ \E i \in Rows : PlannerIncreaseQuantity(i)
    \/ \E i \in Rows : PlannerDecreaseQuantity(i)
    \/ \E i \in Rows, n \in NumberInputs({-1, 0}) : PlannerUpdatePricePerUnit(i, n)
    \/ \E confirmed \in BOOLEAN : PlannerClearAll(confirmed)
    \/ \E text \in Prompts : PlannerOnGenerateList(text)
    \/ \E response \in MaterialResponses, suffixes \in SuffixLists :
          MaterialsResponse(response, suffixes)

Spec == Init /\ [][Next]_vars

Names == {"a", "B"}

\* The planner's list under edits of names and categories, and the views
\* derived from it.
ViewForms ==
    [name : Names, category : {"", " A", "constructor"}, quantity : {1},
     unit : {""}, pricePerUnit : {2}]

ViewMaterialResponses ==
    {r \in MaterialResponses :
        Len(r.elems) = 1 /\ \A i \in 1..Len(r.elems) : r.elems[i].category = " "}

NextViews ==
    \/ Tick
    \/ \E form \in ViewForms : PlannerAddItem(form)
    \/ \E i \in Rows : PlannerRemoveItem(i)
    \/ \E i \in Rows, text \in {"", "B"} : PlannerUpdateName(i, text)
    \/ \E i \in Rows, text \in {"", "A "} : PlannerUpdateCategory(i, text)
    \/ PlannerOnGenerateList("A")
    \/ \E response \in ViewMaterialResponses, suffix \in RandomSuffixes :
          MaterialsResponse(response, <<suffix>>)

SpecViews == Init /\ [][NextViews]_vars

\* The four workflows through the planner's handlers, over a small item store.
WorkflowForm ==
    [name |-> "a", category |-> "", quantity |-> 1, unit |-> "", pricePerUnit |-> 2]

WorkflowMaterialResponses ==
    {r \in MaterialResponses : Len(r.elems) <= 1 /\ r.message = ""}

NextWorkflows ==
    \/ PlannerAddItem(WorkflowForm)
    \/ PlannerClearAll(TRUE)
    \/ \E text \in Prompts : PlannerOnGenerateList(text)
    \/ \E response \in WorkflowMaterialResponses :
          MaterialsResponse(response, [i \in 1..Len(response.elems) |-> "r"])
    \/ \E text \in Prompts : PlannerOnGenerateDetailedAnalysis(text)
    \/ \E response \in TextResponses : AnalysisResponse(response)
    \/ PlannerOnGenerateShoppingList
    \/ \E response \in SuggestionResponses : SuggestionsResponse(response)
    \/ PlannerOnGenerateOperationalBrief
    \/ \E response \in TextResponses : BriefResponse(response)

SpecWorkflows == Init /\ [][NextWorkflows]_vars

\* The four workflows alone, every call returning in one of its ways: a
\* rejected promise, an unparsable text, a document of the wrong shape, or a
\* well-formed answer (for the material list, the empty array).
RequestMaterialResponses == {r \in WorkflowMaterialResponses : Len(r.elems) = 0}

MaterialsRequestCompletes ==
    \E response \in RequestMaterialResponses : MaterialsResponse(response, <<>>)

AnalysisRequestCompletes ==
    \E response \in TextResponses : AnalysisResponse(response)

SuggestionsRequestCompletes ==
    \E response \in SuggestionResponses : SuggestionsResponse(response)

BriefRequestCompletes ==
    \E response \in TextResponses : BriefResponse(response)

NextRequests ==
    \/ PlannerAddItem(WorkflowForm)
    \/ \E text \in Prompts : PlannerOnGenerateList(text)
    \/ MaterialsRequestCompletes
    \/ \E text \in Prompts : PlannerOnGenerateDetailedAnalysis(text)
    \/ AnalysisRequestCompletes
    \/ PlannerOnGenerateShoppingList
    \/ SuggestionsRequestCompletes
    \/ PlannerOnGenerateOperationalBrief
    \/ BriefRequestCompletes

\* Every request that was issued completes: the awaited promise is settled,
\* fulfilled or rejected, and the rest of the method runs.
RequestsComplete ==
    /\ WF_vars(MaterialsRequestCompletes)
    /\ WF_vars(AnalysisRequestCompletes)
    /\ WF_vars(SuggestionsRequestCompletes)
    /\ WF_vars(BriefRequestCompletes)

SpecRequestsFair == Init /\ [][NextRequests]_vars /\ RequestsComplete

-----------------------------------------------------------------------------
(* Claims *)

RemoveAt(s, k) == [i \in 1..(Len(s) - 1) |-> IF i < k THEN s[i] ELSE s[i + 1]]

\* C1: in every reachable state every item of the collection has
\* totalCost = quantity * pricePerUnit, whatever partial-field argument
\* updateItem was given.
C1_TotalCostConsistent ==
    \A i \in 1..Len(items) :
        items[i].totalCost = items[i].quantity * items[i].pricePerUnit

\* C2: after any sequence of addItem calls, whatever the time between two
\* calls, no two items of the collection share an id.
C2_IdsUnique ==
    \A i, j \in 1..Len(items) : i # j => items[i].id # items[j].id

\* C3: updateItem with an id that matches no item leaves the collection as it
\* was (same items, same fields, same order) and does not touch the error slot.
C3_UpdateOfAbsentIdIsNoOp ==
    [][\A id \in ItemIds, updates \in ServiceUpdates :
          (ServiceUpdateItem(id, updates) /\ ~HasId(items, id))
              => (items' = items /\ aiError' = aiError)]_vars

C3_Witness ==
    /\ lastOp = Op("updateItem", FALSE, FALSE)
    /\ Len(items) = MaxItems

\* C4: removeItem(id) removes the item whose id matches and nothing else:
\* the other items stay, unchanged and in the same order; with no item of
\* that id the collection is unchanged.
C4_RemoveOnlyTheMatchingItem ==
    [][\A id \in ItemIds :
          ServiceRemoveItem(id)
              => IF HasId(items, id)
                 THEN \E k \in 1..Len(items) :
                          items[k].id = id /\ items' = RemoveAt(items, k)
                 ELSE items' = items]_vars

\* C5: an item that stays in the collection keeps the id it was created
\* with, whatever partial-field argument updateItem is given.
C5_IdNeverChanges ==
    [][\A id \in ItemIds, updates \in ServiceUpdates :
          ServiceUpdateItem(id, updates)
              => /\ Len(items') = Len(items)
                 /\ \A i \in 1..Len(items) : items'[i].id = items[i].id]_vars

\* C6: every item stored in the collection has quantity > 0 and
\* pricePerUnit >= 0, whichever path created or changed it: the add form, the
\* quantity and price handlers, or a batch appended by material-list
\* generation from any model response.
C6_QuantityPositivePriceNonNegative ==
    \A i \in 1..Len(items) :
        items[i].quantity > 0 /\ items[i].pricePerUnit >= 0

Count(s, x) == Cardinality({i \in 1..Len(s) : s[i] = x})

\* C7: categorizedItems() is a partition of allItems(): every item is in
\* exactly one group, the one named by its trimmed category (blank: the
\* default group); no group is empty; group names are pairwise distinct and
\* in non-decreasing order; the items of a group are in non-decreasing order
\* by name.
C7_CategorizedItemsPartition ==
    LET view == categorizedItems(items)
        groups == view.groups
    IN  /\ ~view.threw
        /\ \A i \in 1..Len(items) :
              \E g \in 1..Len(groups) :
                  /\ groups[g].categoryName = CategoryOf(items[i])
                  /\ Count(groups[g].items, items[i]) = Count(items, items[i])
        /\ \A g \in 1..Len(groups) :
              /\ Len(groups[g].items) > 0
              /\ \A k \in 1..Len(groups[g].items) :
                    /\ CategoryOf(groups[g].items[k]) = groups[g].categoryName
                    /\ Count(items, groups[g].items[k]) > 0
              /\ \A k \in 1..(Len(groups[g].items) - 1) :
                    localeCompare(groups[g].items[k].name,
                                  groups[g].items[k + 1].name) <= 0
        /\ \A g \in 1..(Len(groups) - 1) :
              localeCompare(groups[g].categoryName, groups[g + 1].categoryName) < 0

\* The texts the claims call blank.
BlankTexts == {"", " "}

\* C8: material-list generation invoked with a blank description is
\* rejected before any request: the handler never sets the pending flag to
\* true, starts no request, sets the error slot and leaves the items alone.
C8_BlankDescriptionRejected ==
    [][\A text \in BlankTexts :
          PlannerOnGenerateList(text)
              => /\ ~lastOp'.pendingSet
                 /\ isGenerating' = isGenerating
                 /\ inFlight' = inFlight
                 /\ aiError' # Null
                 /\ items' = items]_vars

C8_Witness ==
    /\ lastOp = Op("onGenerateList", FALSE, FALSE)
    /\ aiError = BlankPromptError
    /\ ~isGenerating
    /\ Len(items) > 0

\* C9: shopping-suggestion generation invoked with an empty collection is
\* rejected without entering Pending: the handler does not set the
\* suggestion pending flag to true at any point, issues no request, and sets
\* the error slot to the 'list is empty' message.
C9_EmptyListRejected ==
    [][(PlannerOnGenerateShoppingList /\ Len(items) = 0)
          => /\ ~lastOp'.pendingSet
             /\ isGeneratingShoppingList' = isGeneratingShoppingList
             /\ inFlight' = inFlight
             /\ aiError' \in {PlannerEmptyListError, ServiceEmptyListError}]_vars

C9_Witness ==
    /\ lastOp = Op("onGenerateShoppingList", FALSE, FALSE)
    /\ aiError = PlannerEmptyListError
    /\ Len(items) = 0
    /\ ~isGeneratingShoppingList

\* The responses the claim names: a transport error, a text that is not
\* valid JSON, valid JSON that is not an array.
FailedMaterialResponses ==
    {r \in MaterialResponses :
        r.rejected \/ r.syntax \in {"malformed", "object", "null"}}

\* C10: a material-list request that ends in a transport error, a response
\* that is not valid JSON, or valid JSON that is not an array ends Failed:
\* the error slot holds a message, the pending flag is cleared, and the items
\* are what they were without the request.
C10_FailedGenerationKeepsItems ==
    [][\A response \in FailedMaterialResponses :
          MaterialsResponse(response, <<>>)
              => /\ aiError' = MaterialsError(IF response.rejected
                                              THEN response.message
                                              ELSE IF response.syntax = "malformed"
                                              THEN "SyntaxError" ELSE "TypeError")
                 /\ isGenerating' = FALSE
                 /\ items' = items]_vars

C10_Witness ==
    /\ lastOp = Op("materialsResponse", FALSE, FALSE)
    /\ aiError = MaterialsError("TypeError")
    /\ ~isGenerating
    /\ Len(items) > 0

\* A text the claims call blank: empty once trimmed.
IsBlank(text) == Trim(text) = ""

ArrayResponses == {r \in MaterialResponses : ~r.rejected /\ r.syntax = "array"}

\* C11: when the material-list response parses as an array of N entries, the
\* collection after the step is the collection as it stood when the response
\* was processed followed by exactly N new items in response order; each new
\* item has its category defaulted when blank, its unit defaulted when blank,
\* pricePerUnit = estimatedPricePerUnit, totalCost = quantity *
\* estimatedPricePerUnit and purchased = false.
C11_BatchAppendedWithDefaults ==
    [][\A response \in ArrayResponses, suffixes \in SuffixLists :
          MaterialsResponse(response, suffixes)
              => LET n == Len(response.elems)
                 IN  /\ Len(items') = Len(items) + n
                     /\ SubSeq(items', 1, Len(items)) = items
                     /\ \A k \in 1..n :
                           LET entry == response.elems[k]
                               item == items'[Len(items) + k]
                           IN  /\ item.name = entry.name
                               /\ item.category = IF IsBlank(entry.category)
                                                  THEN DefaultCategory
                                                  ELSE entry.category
                               /\ item.unit = IF IsBlank(entry.unit)
                                              THEN DefaultUnit ELSE entry.unit
                               /\ item.quantity = entry.quantity
                               /\ item.pricePerUnit = entry.estimatedPricePerUnit
                               /\ item.totalCost =
                                      entry.quantity * entry.estimatedPricePerUnit
                               /\ item.purchased = FALSE]_vars

\* The responses that are not a JSON array of suggestions.
NonArraySuggestionResponses ==
    {r \in SuggestionResponses : ~r.rejected /\ r.syntax # "array"}

\* C12: a suggestion response that is not a JSON array (malformed JSON, or
\* valid JSON of another shape) ends the workflow Failed: the error slot is
\* set to the workflow's message, the response is not stored and the
\* suggestion list is empty afterwards, and the items are untouched.
C12_NonArraySuggestionsFail ==
    [][\A response \in NonArraySuggestionResponses :
          SuggestionsResponse(response)
              => /\ \E detail \in {"SyntaxError", "TypeError"} :
                        aiError' = SuggestionsError(detail)
                 /\ shoppingListSuggestions' = JsonArray(<<>>)
                 /\ items' = items]_vars

\* The responses JSON.parse throws on.
UnparsableSuggestionResponses ==
    {r \in SuggestionResponses : ~r.rejected /\ r.syntax = "malformed"}

\* The step before was the start of the only suggestion request in flight.
SuggestionRequestJustStarted ==
    /\ lastOp.op = "onGenerateShoppingList"
    /\ lastOp.pendingSet
    /\ inFlight["suggestions"] = 1

\* C13 as stated: after an invocation whose response fails to parse, the
\* suggestion slot holds the suggestions it held before the invocation
\* started (taken where the slot held a list of suggestions).
C13_SlotAsBeforeTheInvocation ==
    [][\A response \in UnparsableSuggestionResponses :
          (/\ SuggestionRequestJustStarted
           /\ lastOp.slotBefore.type = "array"
           /\ SuggestionsResponse(response))
              => shoppingListSuggestions' = lastOp.slotBefore]_vars

\* C13 as amended: the step that handles a response that fails to parse as
\* JSON commits nothing: it leaves the suggestion slot and the items as they
\* stood when the response arrived and sets the error slot; when the
\* invocation's start was the step before, the slot is the empty list the
\* start left, not what it held before the invocation.
C13_ParseFailureCommitsNothing ==
    [][\A response \in UnparsableSuggestionResponses :
          SuggestionsResponse(response)
              => /\ shoppingListSuggestions' = shoppingListSuggestions
                 /\ items' = items
                 /\ aiError' = SuggestionsError("SyntaxError")
                 /\ SuggestionRequestJustStarted
                        => shoppingListSuggestions' = JsonArray(<<>>)]_vars

C13_Witness ==
    /\ lastOp = Op("suggestionsResponse", FALSE, FALSE)
    /\ aiError = SuggestionsError("SyntaxError")
    /\ shoppingListSuggestions = JsonArray(<<Suggestion>>)

C15_PendingAnalysisShowsNoResult ==
    isGeneratingDetailedAnalysis => detailedAnalysisResult = Null

\* An analysis was delivered while another request was in flight, and the
\* analysis was invoked again.
C15_Witness ==
    /\ lastOp = Op("onGenerateDetailedAnalysis", TRUE, TRUE)
    /\ isGeneratingDetailedAnalysis
    /\ inFlight["analysis"] = MaxInFlight
    /\ detailedAnalysisResult = Null
    /\ aiError = Null

\* The handlers and completion steps of each workflow, by the name they
\* leave in lastOp.
WorkflowOps(w) ==
    CASE w = "materials" -> {"onGenerateList", "materialsResponse"}
      [] w = "analysis" -> {"onGenerateDetailedAnalysis", "analysisResponse"}
      [] w = "suggestions" -> {"onGenerateShoppingList", "suggestionsResponse"}
      [] w = "brief" -> {"onGenerateOperationalBrief", "briefResponse"}

\* C16: under any interleaving of the four workflows, a step of one workflow
\* (start, success, failure or rejection) changes neither the pending flag
\* nor the result slot of another workflow, and of the four only the
\* material-list workflow changes the item collection.
C16_WorkflowsOwnTheirState ==
    [][\A w \in Workflows :
          lastOp'.op \in WorkflowOps(w)
              => /\ w # "materials"
                    => isGenerating' = isGenerating /\ items' = items
                 /\ w # "analysis"
                    => /\ isGeneratingDetailedAnalysis' = isGeneratingDetailedAnalysis
                       /\ detailedAnalysisResult' = detailedAnalysisResult
                 /\ w # "suggestions"
                    => /\ isGeneratingShoppingList' = isGeneratingShoppingList
                       /\ shoppingListSuggestions' = shoppingListSuggestions
                 /\ w # "brief"
                    => /\ isGeneratingOperationalBrief' = isGeneratingOperationalBrief
                       /\ operationalBriefResult' = operationalBriefResult]_vars

\* An analysis request was started while the other three workflows hold a
\* pending flag or a result.
C16_Witness ==
    /\ lastOp = Op("onGenerateDetailedAnalysis", TRUE, TRUE)
    /\ isGenerating
    /\ shoppingListSuggestions = JsonArray(<<Suggestion>>)
    /\ operationalBriefResult = <<"T">>
    /\ Len(items) > 0

StartOps ==
    {"onGenerateList", "onGenerateDetailedAnalysis", "onGenerateShoppingList",
     "onGenerateOperationalBrief"}

ResponseOps ==
    {"materialsResponse", "analysisResponse", "suggestionsResponse", "briefResponse"}

\* The kinds of step, read from what the step leaves in lastOp.
StepFailsOrIsRejected == lastOp'.op \in StartOps \cup ResponseOps /\ ~lastOp'.hit

StepEntersPending == lastOp'.op \in StartOps /\ lastOp'.hit

StepCompletesSuccessfully == lastOp'.op \in ResponseOps /\ lastOp'.hit

\* C17 as stated: the error slot is changed only by a failure or a
\* validation rejection; a workflow entering Pending or completing
\* successfully leaves it unchanged.
C17_ErrorChangedOnlyByFailure ==
    [][/\ aiError' # aiError => StepFailsOrIsRejected
       /\ StepEntersPending \/ StepCompletesSuccessfully
             => aiError' = aiError]_vars

\* C17 as amended: the error slot is changed only by a failure or validation
\* rejection, which overwrites it with that message, or by a workflow
\* entering Pending, which clears it; a workflow completing successfully
\* (and every item operation) leaves it unchanged.
C17_ErrorChangedByFailureOrStart ==
    [][/\ aiError' # aiError => StepFailsOrIsRejected \/ StepEntersPending
       /\ StepFailsOrIsRejected => aiError' # Null
       /\ StepEntersPending => aiError' = Null
       /\ StepCompletesSuccessfully => aiError' = aiError]_vars

\* An analysis completed successfully while the material list's failure
\* message was in the error slot.
C17_Witness ==
    /\ lastOp = Op("analysisResponse", TRUE, FALSE)
    /\ aiError = MaterialsError("SyntaxError")
    /\ detailedAnalysisResult = <<"T">>

PendingFlag(w) ==
    CASE w = "materials" -> isGenerating
      [] w = "analysis" -> isGeneratingDetailedAnalysis
      [] w = "suggestions" -> isGeneratingShoppingList
      [] w = "brief" -> isGeneratingOperationalBrief

\* C18: for each workflow the pending flag is true whenever at least one
\* request of that workflow is in flight, also when the workflow is invoked
\* again while an earlier invocation is pending: the flag is not false
\* before the last request in flight has completed.
C18_PendingWhileInFlight ==
    \A w \in Workflows : inFlight[w] > 0 => PendingFlag(w)

\* C19: after any sequence of item operations and material-list appends the
\* derived views agree: categoryCosts() lists the category names of
\* categorizedItems() in the same order, each category's total is the sum of
\* totalCost over the items of that group, and the category totals add up to
\* totalBudget(), the sum of totalCost over allItems().
C19_DerivedViewsAgree ==
    LET view == categorizedItems(items)
        groups == view.groups
        costs == categoryCosts(items)
    IN  /\ ~view.threw
        /\ Len(costs) = Len(groups)
        /\ \A k \in 1..Len(groups) :
              /\ costs[k].category = groups[k].categoryName
              /\ costs[k].total = totalBudget(groups[k].items)
        /\ Sum([k \in 1..Len(costs) |-> costs[k].total]) = totalBudget(items)
        /\ totalBudget(items) = Sum([i \in 1..Len(items) |-> items[i].totalCost])

====
